---- MODULE Spec2Model ----
(***************************************************************************)
(* The e-mail subscription endpoints of rust-for-js-devs: the POST handler *)
(* that stores an address in the Redis set 'emails' and the GET handler    *)
(* that reports the cardinality of that set.  Every handler invocation is  *)
(* a process whose steps are the code between two awaits; the Redis server *)
(* executes each command atomically at some moment between the await that  *)
(* issues it and the continuation that receives its reply.                 *)
(***************************************************************************)
EXTENDS Integers, Sequences, FiniteSets, TLC

VARIABLES store, req, conns, calls, hist

vars == <<store, req, conns, calls, hist>>

(* ------------------------------ bounds --------------------------------- *)

\* handler invocations the hosting runtime runs at the same time
NumSlots == 2
\* requests received in one behaviour of the concurrent specification
MaxCalls == 3
\* requests received in one behaviour of the sequential specification
MaxSeqCalls == 6
\* requests received in one behaviour of the fair specification
MaxLiveCalls == 2
\* requests received in one behaviour of the specification of arbitrary strings
MaxTextCalls == 4

Slots == 1..NumSlots

\* the addresses clients submit
Emails == {"a@x.com", "b@y.com"}

(* --------------------------- JavaScript values ------------------------- *)

Undefined == [type |-> "undefined", str |-> "", num |-> 0]
Null == [type |-> "null", str |-> "", num |-> 0]
Str(s) == [type |-> "string", str |-> s, num |-> 0]
Num(n) == [type |-> "number", str |-> "", num |-> n]

\* a truthiness test that forgets the empty string
ToBooleanAnyString(v) == v.type = "string"

\* a validation of the form of the address: only strings with a mailbox and
\* a domain pass
ToBooleanAddressForm(v) == v.type = "string" /\ v.str \in {"a@x.com", "b@y.com"}

\* ToBoolean, as `!data.email` applies it
ToBoolean(v) ==
    CASE v.type = "string" -> v.str # ""
      [] v.type = "number" -> v.num # 0
      [] OTHER -> FALSE

\* the request bodies: {} , {email: ""}, {email: null}, {email: "<address>"}
EmptyBody == [f \in {} |-> Undefined]
Bodies ==
    {EmptyBody} \cup {[email |-> v] : v \in {Str(""), Null} \cup {Str(e) : e \in Emails}}

\* data.email: a property that is absent reads as undefined
EmailOf(data) == IF "email" \in DOMAIN data THEN data["email"] ELSE Undefined

(* ------------------------------ responses ------------------------------ *)

MsgMissing == "Faltan campos requeridos"
MsgAlready == "Ya estás suscrito"
MsgSuccess == "¡Éxito!"

\* new Response(JSON.stringify({ message })): no init argument, so status 200
StatusOk == 200
Response(message) == [status |-> StatusOk, message |-> message]

(* ------------------------------- requests ------------------------------ *)

\* a slot of the runtime that runs no handler invocation.  A request has its
\* body (data), its position (pc), the reply of sMembers (emails), the reply
\* of sCard (count), whether its client has the error listener, the store
\* commands the server has completed for it (ops), the store as it was on
\* arrival and whether it has run without overlap.
Idle ==
    [kind |-> "none", data |-> EmptyBody, pc |-> "idle", emails |-> {},
     count |-> 0, ops |-> <<>>, listener |-> FALSE,
     startStore |-> {}, alone |-> TRUE]

Finished(r) == r.pc = "idle"
InFlight(r) == ~Finished(r)

Init ==
    /\ store = {}
    /\ req = [s \in Slots |-> Idle]
    /\ conns = 0
    /\ calls = 0
    /\ hist = <<>>

(* --------------------------- the Redis commands ------------------------ *)

\* SMEMBERS of another key: the reply is empty whatever is stored
sMembersOtherKey(S) == {}

\* SMEMBERS emails: every member of the set
sMembers(S) == S

\* SET in place of SADD: the key is overwritten with the one address
sAddOverwrites(S, e) == {e}

\* RPUSH in place of SADD: an address pushed again is stored as a second entry
sAddAppends(S, e) == IF e \in S THEN S \cup {e \o "#2"} ELSE S \cup {e}

\* SADD emails e: set union, so adding a member again changes nothing
sAdd(S, e) == S \cup {e}

\* EXISTS in place of SCARD: 1 for a key that exists, 0 otherwise
sCardExists(S) == IF S = {} THEN 0 ELSE 1

\* SCARD emails: the number of members
sCard(S) == Cardinality(S)

\* includes(data): the body object is never equal to a stored string
includesObject(arr, v) == FALSE

\* the test inverted: an address that is not in the reply counts as found
includesNegated(arr, v) == ~(v.type = "string" /\ v.str \in arr)

\* a test of the length of the reply: any stored address counts as a match
includesAnyMember(arr, v) == arr # {}

\* emails.includes(data.email): strict equality against an array of strings
includes(arr, v) == v.type = "string" /\ v.str \in arr

\* the command a request is waiting for, if any
Pending(r) == IF r.pc \in {"connect", "sMembers", "sAdd", "sCard"} THEN <<r.pc>> ELSE <<>>

\* the store operations a request has issued so far, in order
Issued(r) == r.ops \o Pending(r)

(* ------------------------------ bookkeeping ---------------------------- *)

\* slot s moves to record r; nothing else changes in the other requests
Step(s, r) == req' = [req EXCEPT ![s] = r]

\* the invocation in slot s has ended (returned or thrown): the slot is free
End(s) == Step(s, Idle)

\* slot s receives a new request r; every request in flight now overlaps it
Admit(s, r) ==
    req' = [t \in Slots |->
              IF t = s THEN [r EXCEPT !.startStore = store,
                                      !.alone = \A u \in Slots \ {s} : Finished(req[u])]
              ELSE IF InFlight(req[t]) THEN [req[t] EXCEPT !.alone = FALSE]
              ELSE req[t]]

\* the response of a request as the client observes it, with the request it
\* answers and the store before the request and at the response
Observed(r, resp) ==
    [kind |-> r.kind, data |-> r.data, resp |-> resp,
     ops |-> r.ops, emails |-> r.emails,
     before |-> r.startStore, after |-> store, alone |-> r.alone]

\* the handler in slot s returns resp
Return(s, resp) ==
    /\ hist' = Append(hist, Observed(req[s], resp))
    /\ End(s)

(* ------------------------- POST /api/subscribe ------------------------- *)

\* the runtime invokes POST; the handler awaits request.json()
POST_Start(s, body, max) ==
    /\ Finished(req[s])
    /\ calls < max
    /\ Admit(s, [Idle EXCEPT !.kind = "POST", !.data = body, !.pc = "json"])
    /\ calls' = calls + 1
    /\ UNCHANGED <<store, conns, hist>>

\* a handler that answers a missing field with new Response(body, { status: 400 })
POST_ValidateBadRequest(s) ==
    /\ req[s].kind = "POST" /\ req[s].pc = "json"
    /\ IF ~ToBoolean(EmailOf(req[s].data))
       THEN Return(s, [Response(Str(MsgMissing)) EXCEPT !.status = 400])
       ELSE /\ Step(s, [req[s] EXCEPT !.pc = "connect"])
            /\ hist' = hist
    /\ UNCHANGED <<store, conns, calls>>

\* a handler that calls redis.connect() without await and goes on to sMembers
POST_ValidateNoAwait(s) ==
    /\ req[s].kind = "POST" /\ req[s].pc = "json"
    /\ IF ~ToBoolean(EmailOf(req[s].data))
       THEN Return(s, Response(Str(MsgMissing)))
       ELSE /\ Step(s, [req[s] EXCEPT !.pc = "sMembers"])
            /\ hist' = hist
    /\ UNCHANGED <<store, conns, calls>>

\* a handler that registers the error listener on the new client before it
\* calls connect
POST_ValidateListens(s) ==
    /\ req[s].kind = "POST" /\ req[s].pc = "json"
    /\ IF ~ToBoolean(EmailOf(req[s].data))
       THEN Return(s, Response(Str(MsgMissing)))
       ELSE /\ Step(s, [req[s] EXCEPT !.pc = "connect", !.listener = TRUE])
            /\ hist' = hist
    /\ UNCHANGED <<store, conns, calls>>

\* `if (!data.email)`: respond at once, else createClient and issue connect
POST_Validate(s) ==
    /\ req[s].kind = "POST" /\ req[s].pc = "json"
    /\ IF ~ToBoolean(EmailOf(req[s].data))
       THEN Return(s, Response(Str(MsgMissing)))
       ELSE /\ Step(s, [req[s] EXCEPT !.pc = "connect"])
            /\ hist' = hist
    /\ UNCHANGED <<store, conns, calls>>

\* connect resolved: register the error listener, issue sMembers
POST_Connected(s) ==
    /\ req[s].kind = "POST" /\ req[s].pc = "connect"
    /\ conns' = conns + 1
    /\ Step(s, [req[s] EXCEPT !.pc = "sMembers", !.listener = TRUE,
                              !.ops = Append(@, "connect")])
    /\ UNCHANGED <<store, calls, hist>>

\* the server executes SMEMBERS for request s
POST_SMembers(s) ==
    /\ req[s].kind = "POST" /\ req[s].pc = "sMembers"
    /\ Step(s, [req[s] EXCEPT !.pc = "gotMembers", !.emails = sMembers(store),
                              !.ops = Append(@, "sMembers")])
    /\ UNCHANGED <<store, conns, calls, hist>>

\* a handler that unsubscribes an address it finds stored (sRem) and answers
\* as the duplicate path does
POST_CheckToggles(s) ==
    /\ req[s].kind = "POST" /\ req[s].pc = "gotMembers"
    /\ IF includes(req[s].emails, EmailOf(req[s].data))
       THEN /\ store' = store \ {EmailOf(req[s].data).str}
            /\ hist' = Append(hist, [Observed(req[s], Response(Str(MsgAlready)))
                                       EXCEPT !.after = store'])
            /\ End(s)
       ELSE /\ Step(s, [req[s] EXCEPT !.pc = "sAdd"])
            /\ UNCHANGED <<store, hist>>
    /\ UNCHANGED <<conns, calls>>

\* a handler without the early return: sAdd is issued whatever the check found
POST_CheckNoReturn(s) ==
    /\ req[s].kind = "POST" /\ req[s].pc = "gotMembers"
    /\ Step(s, [req[s] EXCEPT !.pc = "sAdd"])
    /\ UNCHANGED <<store, conns, calls, hist>>

\* a handler that responds on the new-address path without awaiting sAdd
POST_CheckNoAwait(s) ==
    /\ req[s].kind = "POST" /\ req[s].pc = "gotMembers"
    /\ IF includes(req[s].emails, EmailOf(req[s].data))
       THEN Return(s, Response(Str(MsgAlready)))
       ELSE Return(s, Response(Str(MsgSuccess)))
    /\ UNCHANGED <<store, conns, calls>>

\* the reply arrived: `if (emails.includes(data.email))` respond, else issue sAdd
POST_Check(s) ==
    /\ req[s].kind = "POST" /\ req[s].pc = "gotMembers"
    /\ IF includes(req[s].emails, EmailOf(req[s].data))
       THEN Return(s, Response(Str(MsgAlready)))
       ELSE /\ Step(s, [req[s] EXCEPT !.pc = "sAdd"])
            /\ hist' = hist
    /\ UNCHANGED <<store, conns, calls>>

\* a handler built on the reply of SADD: an address that was stored by the
\* time of the insertion is answered as a duplicate
POST_SAddReportsNew(s) ==
    /\ req[s].kind = "POST" /\ req[s].pc = "sAdd"
    /\ IF EmailOf(req[s].data).str \in store
       THEN /\ Return(s, Response(Str(MsgAlready)))
            /\ store' = store
       ELSE /\ store' = sAdd(store, EmailOf(req[s].data).str)
            /\ Step(s, [req[s] EXCEPT !.pc = "added", !.ops = Append(@, "sAdd")])
            /\ hist' = hist
    /\ UNCHANGED <<conns, calls>>

\* a handler that issues sAdd a second time after the first has completed
POST_SAddRetried(s) ==
    /\ req[s].kind = "POST" /\ req[s].pc = "sAdd"
    /\ store' = sAdd(store, EmailOf(req[s].data).str)
    /\ Step(s, [req[s] EXCEPT !.pc = IF \E k \in DOMAIN req[s].ops :
                                            req[s].ops[k] = "sAdd"
                                      THEN "added" ELSE "sAdd",
                              !.ops = Append(@, "sAdd")])
    /\ UNCHANGED <<conns, calls, hist>>

\* the server executes SADD for request s
POST_SAdd(s) ==
    /\ req[s].kind = "POST" /\ req[s].pc = "sAdd"
    /\ store' = sAdd(store, EmailOf(req[s].data).str)
    /\ Step(s, [req[s] EXCEPT !.pc = "added", !.ops = Append(@, "sAdd")])
    /\ UNCHANGED <<conns, calls, hist>>

\* a handler whose new-address path ends without a return statement
POST_SuccessNoReturn(s) ==
    /\ req[s].kind = "POST" /\ req[s].pc = "added"
    /\ End(s)
    /\ UNCHANGED <<store, conns, calls, hist>>

\* the reply arrived: respond with the success message
POST_Success(s) ==
    /\ req[s].kind = "POST" /\ req[s].pc = "added"
    /\ Return(s, Response(Str(MsgSuccess)))
    /\ UNCHANGED <<store, conns, calls>>

(* --------------------------- GET /api/get-count ------------------------ *)

\* the runtime invokes GET; the handler creates a client and issues connect
GET_Start(s, max) ==
    /\ Finished(req[s])
    /\ calls < max
    /\ Admit(s, [Idle EXCEPT !.kind = "GET", !.pc = "connect"])
    /\ calls' = calls + 1
    /\ UNCHANGED <<store, conns, hist>>

\* connect resolved: issue sCard
GET_Connected(s) ==
    /\ req[s].kind = "GET" /\ req[s].pc = "connect"
    /\ conns' = conns + 1
    /\ Step(s, [req[s] EXCEPT !.pc = "sCard", !.ops = Append(@, "connect")])
    /\ UNCHANGED <<store, calls, hist>>

\* SPOP with a count in place of SCARD: the members are counted by removing them
GET_SCardPops(s) ==
    /\ req[s].kind = "GET" /\ req[s].pc = "sCard"
    /\ store' = {}
    /\ Step(s, [req[s] EXCEPT !.pc = "gotCount", !.count = sCard(store),
                              !.ops = Append(@, "sCard")])
    /\ UNCHANGED <<conns, calls, hist>>

\* the server executes SCARD for request s
GET_SCard(s) ==
    /\ req[s].kind = "GET" /\ req[s].pc = "sCard"
    /\ Step(s, [req[s] EXCEPT !.pc = "gotCount", !.count = sCard(store),
                              !.ops = Append(@, "sCard")])
    /\ UNCHANGED <<store, conns, calls, hist>>

\* a handler that closes its client (redis.quit()) before it returns
GET_RespondQuits(s) ==
    /\ req[s].kind = "GET" /\ req[s].pc = "gotCount"
    /\ Return(s, Response(Num(req[s].count)))
    /\ conns' = conns - 1
    /\ UNCHANGED <<store, calls>>

\* the reply arrived: respond with the count
GET_Respond(s) ==
    /\ req[s].kind = "GET" /\ req[s].pc = "gotCount"
    /\ Return(s, Response(Num(req[s].count)))
    /\ UNCHANGED <<store, conns, calls>>

(* ------------------------------ store failure -------------------------- *)

\* a handler that catches the rejection of sAdd, logs it and carries on to
\* the success response
RejectCaught(s) ==
    /\ Pending(req[s]) # <<>>
    /\ IF req[s].pc = "sAdd"
       THEN Return(s, Response(Str(MsgSuccess)))
       ELSE End(s) /\ hist' = hist
    /\ UNCHANGED <<store, conns, calls>>

\* the awaited command rejects: the handler throws and returns no response
Reject(s) ==
    /\ Pending(req[s]) # <<>>
    /\ End(s)
    /\ UNCHANGED <<store, conns, calls, hist>>

(* ----------------------------- specifications -------------------------- *)

\* the next step of the handler in slot s when the command it awaits succeeds
Proceed(s) ==
    \/ POST_Validate(s)
    \/ POST_Connected(s)
    \/ POST_SMembers(s)
    \/ POST_Check(s)
    \/ POST_SAdd(s)
    \/ POST_Success(s)
    \/ GET_Connected(s)
    \/ GET_SCard(s)
    \/ GET_Respond(s)

Handle(s) ==
    \/ Proceed(s)
    \/ Reject(s)

\* the runtime runs a new invocation in the first slot that is free
Free(s) == Finished(req[s]) /\ \A t \in 1..(s - 1) : InFlight(req[t])

\* requests arrive at any time and their steps interleave
Next ==
    \/ \E s \in Slots, body \in Bodies : Free(s) /\ POST_Start(s, body, MaxCalls)
    \/ \E s \in Slots : Free(s) /\ GET_Start(s, MaxCalls)
    \/ \E s \in Slots : Handle(s)

Spec == Init /\ [][Next]_vars

\* one client that sends a request only after the previous one has ended
NoneInFlight == \A s \in Slots : Finished(req[s])

SeqNext ==
    \/ \E body \in Bodies : NoneInFlight /\ POST_Start(1, body, MaxSeqCalls)
    \/ NoneInFlight /\ GET_Start(1, MaxSeqCalls)
    \/ Handle(1)

SeqSpec == Init /\ [][SeqNext]_vars

\* a store whose commands all succeed and a runtime that lets every handler
\* in flight take its next step
LiveNext ==
    \/ \E s \in Slots, body \in Bodies : Free(s) /\ POST_Start(s, body, MaxLiveCalls)
    \/ \E s \in Slots : Free(s) /\ GET_Start(s, MaxLiveCalls)
    \/ \E s \in Slots : Proceed(s)

LiveSpec == Init /\ [][LiveNext]_vars /\ \A s \in Slots : WF_vars(Proceed(s))

\* requests arrive at any time and interleave, and no store command fails
SteadyNext ==
    \/ \E s \in Slots, body \in Bodies : Free(s) /\ POST_Start(s, body, MaxCalls)
    \/ \E s \in Slots : Free(s) /\ GET_Start(s, MaxCalls)
    \/ \E s \in Slots : Proceed(s)

SteadySpec == Init /\ [][SteadyNext]_vars

\* strings that are no addresses, which a client may submit all the same
Texts == {"not an address", " "}
\* bodies whose email is any string: a text, an address or the empty string
TextBodies == {[email |-> Str(t)] : t \in Texts \cup Emails \cup {""}}

\* one client that submits any string as email, one request after the other
TextNext ==
    \/ \E body \in TextBodies : NoneInFlight /\ POST_Start(1, body, MaxTextCalls)
    \/ NoneInFlight /\ GET_Start(1, MaxTextCalls)
    \/ Handle(1)

TextSpec == Init /\ [][TextNext]_vars

(* ------------------------- reading the observations -------------------- *)

Missing == Response(Str(MsgMissing))
Already == Response(Str(MsgAlready))
Success == Response(Str(MsgSuccess))
Counted(k) == Response(Num(k))

Subscribes(h) == h.kind = "POST"
Counts(h) == h.kind = "GET"
\* a body with a valid email: the field is there and is a non-empty string
Valid(data) ==
    /\ "email" \in DOMAIN data
    /\ data["email"].type = "string"
    /\ data["email"].str # ""
Address(data) == data["email"].str
SubscribesTo(h, e) == Subscribes(h) /\ h.data = [email |-> Str(e)]

\* the slot whose handler takes the step
Acts(s) == req'[s].pc # req[s].pc

\* the step is one in which a handler returns resp
Returns(s, resp) ==
    /\ Acts(s)
    /\ Len(hist') = Len(hist) + 1
    /\ hist'[Len(hist')].resp = resp

Occurrences(ops, op) == Cardinality({i \in DOMAIN ops : ops[i] = op})

(* -------------------------------- C1 ----------------------------------- *)

\* C1: a Subscribe request whose body has no email, or a falsy one, is answered
\* with the "missing fields" message, and neither while it runs nor when it
\* has returned has it opened a connection or issued any command to the store.
C1_MissingFieldsNoStoreAccess ==
    /\ \A i \in DOMAIN hist :
          Subscribes(hist[i]) /\ ~Valid(hist[i].data)
             => hist[i].resp = Missing /\ hist[i].ops = <<>>
    /\ \A s \in Slots :
          req[s].kind = "POST" /\ ~Valid(req[s].data) => Issued(req[s]) = <<>>

\* requests without the field, with an empty and with a null email were answered
C1_Witness ==
    \A body \in {EmptyBody, [email |-> Str("")], [email |-> Null]} :
       \E i \in DOMAIN hist :
          Subscribes(hist[i]) /\ hist[i].data = body /\ hist[i].resp = Missing

(* -------------------------------- C2 ----------------------------------- *)

\* C2: in a sequential run, a Subscribe(e) with a valid e that is not stored
\* returns Success and has inserted e; every later Subscribe(e) returns
\* "Already subscribed" and leaves the size of the stored set unchanged.
C2_NewThenAlready ==
    /\ \A i \in DOMAIN hist :
          Subscribes(hist[i]) /\ Valid(hist[i].data)
                /\ Address(hist[i].data) \notin hist[i].before
             => /\ hist[i].resp = Success
                /\ hist[i].after = hist[i].before \cup {Address(hist[i].data)}
    /\ \A i, j \in DOMAIN hist :
          i < j /\ Subscribes(hist[i]) /\ Subscribes(hist[j]) /\ Valid(hist[i].data)
                /\ hist[j].data = hist[i].data
             => /\ hist[j].resp = Already
                /\ Cardinality(hist[j].after) = Cardinality(hist[j].before)

\* a new address was subscribed with Success and then again, answered Already
C2_Witness ==
    \E i, j \in DOMAIN hist :
       /\ i < j /\ Subscribes(hist[i]) /\ hist[j].data = hist[i].data
       /\ Subscribes(hist[j]) /\ Valid(hist[i].data)
       /\ Address(hist[i].data) \notin hist[i].before
       /\ hist[i].resp = Success /\ hist[j].resp = Already

(* -------------------------------- C3 ----------------------------------- *)

\* C3: in a sequential run, when two Subscribe requests with the same body
\* follow each other, the store after the second is the store after the first.
C3_Idempotent ==
    \A i \in DOMAIN hist :
       (i + 1 \in DOMAIN hist /\ Subscribes(hist[i]) /\ Subscribes(hist[i + 1])
            /\ hist[i + 1].data = hist[i].data)
          => hist[i + 1].after = hist[i].after

\* the same address twice in a row, once where the first call inserted it into
\* a store that held another address, once where it was stored already
C3_Witness ==
    /\ \E i \in DOMAIN hist :
          /\ i + 1 \in DOMAIN hist
          /\ Subscribes(hist[i]) /\ Subscribes(hist[i + 1])
          /\ hist[i + 1].data = hist[i].data
          /\ hist[i].resp = Success /\ hist[i].before # {}
          /\ hist[i + 1].resp = Already
    /\ \E i \in DOMAIN hist :
          /\ i + 1 \in DOMAIN hist
          /\ Subscribes(hist[i]) /\ Subscribes(hist[i + 1])
          /\ hist[i + 1].data = hist[i].data
          /\ hist[i].resp = Already /\ hist[i + 1].resp = Already

(* -------------------------------- C4 ----------------------------------- *)

\* the valid addresses submitted between observations i and j
SubmittedBetween(i, j) ==
    {Address(hist[k].data) : k \in {m \in (i + 1)..(j - 1) :
                                      Subscribes(hist[m]) /\ Valid(hist[m].data)}}

\* C4: in a sequential run, the count reported after a series of Subscribe
\* requests is the count reported before it plus the number of distinct
\* submitted addresses that were not stored before; repeats do not add to it.
C4_CountGrowsByDistinctNew ==
    \A i, j \in DOMAIN hist :
       i < j /\ Counts(hist[i]) /\ Counts(hist[j])
          => hist[j].resp =
               Counted(hist[i].resp.message.num
                         + Cardinality(SubmittedBetween(i, j) \ hist[i].after))

\* between two counts, two distinct new addresses and a repeat of one of them
C4_Witness ==
    \E i, j \in DOMAIN hist :
       /\ j = i + 4 /\ Counts(hist[i]) /\ Counts(hist[j])
       /\ \A k \in (i + 1)..(j - 1) : Subscribes(hist[k])
       /\ Cardinality(SubmittedBetween(i, j) \ hist[i].after) = 2
       /\ hist[j].resp = Counted(hist[i].resp.message.num + 2)

(* -------------------------------- C5 ----------------------------------- *)

\* the calls of the scenario are observations i .. i+5, from an empty store
Scenario(i, a, b) ==
    /\ i + 5 \in DOMAIN hist
    /\ hist[i].before = {}
    /\ SubscribesTo(hist[i], a) /\ Counts(hist[i + 1])
    /\ SubscribesTo(hist[i + 2], a) /\ Counts(hist[i + 3])
    /\ SubscribesTo(hist[i + 4], b) /\ Counts(hist[i + 5])

\* C5: from an empty store the sequential run Subscribe(a), Count, Subscribe(a),
\* Count, Subscribe(b), Count, with a # b, is answered Success, 1, Already
\* subscribed, 1, Success, 2.
C5_Scenario ==
    \A i \in DOMAIN hist : \A a, b \in Emails :
       a # b /\ Scenario(i, a, b)
          => <<hist[i].resp, hist[i + 1].resp, hist[i + 2].resp,
               hist[i + 3].resp, hist[i + 4].resp, hist[i + 5].resp>>
             = <<Success, Counted(1), Already, Counted(1), Success, Counted(2)>>

\* the scenario has run to its end with the two addresses in the store
C5_Witness ==
    /\ Len(hist) = 6 /\ calls = 6
    /\ Scenario(1, "a@x.com", "b@y.com")
    /\ store = {"a@x.com", "b@y.com"}

(* -------------------------------- C6 ----------------------------------- *)

\* C6: no step of a Count request, from its arrival to its response, changes
\* the stored set, whatever the other requests do.
C6_CountReadOnly ==
    [][\A s \in Slots :
          Acts(s) /\ (req[s].kind = "GET" \/ req'[s].kind = "GET") => store' = store]_vars

\* a Count request has returned after running while another request changed
\* the store
C6_Witness ==
    \E i \in DOMAIN hist :
       /\ Counts(hist[i]) /\ ~hist[i].alone
       /\ hist[i].after # hist[i].before

(* -------------------------------- C7 ----------------------------------- *)

\* C7: a Count request answers with a non-negative integer; with nothing ever
\* stored it answers 0, and when no other request ran during it, it answers
\* the number of stored addresses.
C7_CountIsCardinality ==
    \A i \in DOMAIN hist :
       Counts(hist[i])
          => /\ hist[i].resp.status = StatusOk
             /\ hist[i].resp.message.type = "number"
             /\ hist[i].resp.message.num \in Nat
             /\ hist[i].after = {} => hist[i].resp = Counted(0)
             /\ hist[i].alone => hist[i].resp = Counted(Cardinality(hist[i].after))

\* a Count answered 0 on the empty store and a later one, run alone on a
\* store that holds an address, answered 1
C7_Witness ==
    \E i, j \in DOMAIN hist :
       /\ Counts(hist[i]) /\ hist[i].after = {} /\ hist[i].resp = Counted(0)
       /\ Counts(hist[j]) /\ hist[j].alone /\ hist[j].resp = Counted(1)

(* -------------------------------- C8 ----------------------------------- *)

\* the commands of a Subscribe request r: at most one SADD, issued only after
\* its own SMEMBERS reply did not hold its address
OneInsertionWhenAbsent(r, issued) ==
    /\ Occurrences(issued, "sAdd") <= 1
    /\ Occurrences(issued, "sAdd") = 1
          => /\ Occurrences(r.ops, "sMembers") = 1
             /\ Valid(r.data)
             /\ Address(r.data) \notin r.emails

\* C8: a Subscribe request performs at most one insertion, and only when its
\* membership check found the address absent; a request answered "missing
\* fields" or "Already subscribed" has performed none.
C8_AtMostOneInsertion ==
    /\ \A s \in Slots :
          req[s].kind = "POST" => OneInsertionWhenAbsent(req[s], Issued(req[s]))
    /\ \A i \in DOMAIN hist :
          Subscribes(hist[i])
             => /\ OneInsertionWhenAbsent(hist[i], hist[i].ops)
                /\ hist[i].resp \in {Missing, Already}
                      => Occurrences(hist[i].ops, "sAdd") = 0
                /\ hist[i].resp = Success => Occurrences(hist[i].ops, "sAdd") = 1

\* all three paths have returned: missing field, member already, inserted
C8_Witness ==
    \A resp \in {Missing, Already, Success} :
       \E i \in DOMAIN hist : Subscribes(hist[i]) /\ hist[i].resp = resp

(* -------------------------------- C9 ----------------------------------- *)

\* C9: a Subscribe request that answers "Already subscribed" has executed no
\* insertion, and the step in which it answers leaves the stored set as it is.
C9_AlreadyNoMutation ==
    [][\A s \in Slots :
          Returns(s, Already)
             => store' = store /\ Occurrences(req[s].ops, "sAdd") = 0]_vars

\* a request was answered "Already subscribed" for an address in the store
C9_Witness ==
    \E i \in DOMAIN hist :
       /\ hist[i].resp = Already
       /\ Address(hist[i].data) \in hist[i].emails
       /\ Address(hist[i].data) \in store

(* -------------------------------- C10 ---------------------------------- *)

\* C10: no step removes a member of the stored set.
C10_StoreOnlyGrows == [][store \subseteq store']_vars

\* an address is stored and requests of every kind have followed its insertion
C10_Witness ==
    /\ store # {}
    /\ \E i, j, k \in DOMAIN hist :
          /\ i < j /\ i < k
          /\ hist[i].resp = Success
          /\ hist[j].resp = Already
          /\ Counts(hist[k])

(* -------------------------------- C11 ---------------------------------- *)

\* C11: the answer of a Subscribe request follows its own membership query and
\* not the store at its insertion: it is Success exactly when the reply did not
\* hold the address.  So two requests for the same new address that both query
\* before either inserts both answer Success.
C11_AnswerFollowsQuery ==
    \A i \in DOMAIN hist :
       Subscribes(hist[i]) /\ Valid(hist[i].data)
          => /\ Occurrences(hist[i].ops, "sMembers") = 1
             /\ hist[i].resp = Success <=> Address(hist[i].data) \notin hist[i].emails
             /\ hist[i].resp = Already <=> Address(hist[i].data) \in hist[i].emails

\* two requests for the same address, new to the store, have both answered
\* Success: each queried before either inserted
C11_Witness ==
    \E i, j \in DOMAIN hist :
       /\ i < j
       /\ Subscribes(hist[i]) /\ Subscribes(hist[j])
       /\ Valid(hist[i].data) /\ hist[j].data = hist[i].data
       /\ Address(hist[i].data) \notin hist[i].before \cup hist[j].before
       /\ Address(hist[i].data) \notin hist[i].emails \cup hist[j].emails
       /\ hist[i].resp = Success /\ hist[j].resp = Success

(* -------------------------------- C12 ---------------------------------- *)

\* the requests, returned or running, for which the server has executed SADD
Inserters ==
    {hist[i] : i \in {k \in DOMAIN hist : Occurrences(hist[k].ops, "sAdd") > 0}}
       \cup {req[s] : s \in {u \in Slots : Occurrences(req[u].ops, "sAdd") > 0}}

\* the addresses those requests have inserted
Inserted == {Address(r.data) : r \in Inserters}

\* C12: whatever the interleaving, the stored set is the set of the addresses
\* inserted: an address inserted by several racing requests is stored once and
\* adds one to the cardinality, however many of them answered Success.
C12_StoredOnce ==
    /\ store = Inserted
    /\ Cardinality(store) = Cardinality(Inserted)
    /\ \A i \in DOMAIN hist :
          hist[i].resp = Success
             => /\ Address(hist[i].data) \in hist[i].after
                /\ (/\ Address(hist[i].data) \notin hist[i].before
                    /\ \A r \in Inserters :
                          Address(r.data) \in hist[i].before \cup {Address(hist[i].data)})
                      => Cardinality(store) = Cardinality(hist[i].before) + 1

\* two racing requests for one new address have both answered Success and
\* the store holds that address alone
C12_Witness ==
    /\ \E e \in Emails : store = {e}
    /\ Cardinality(store) = 1
    /\ \E i, j \in DOMAIN hist :
          /\ i < j
          /\ hist[i].resp = Success /\ hist[j].resp = Success
          /\ hist[j].data = hist[i].data
          /\ hist[i].before = {} /\ hist[j].before = {}

(* -------------------------------- C13 ---------------------------------- *)

\* the request in slot s has the reply of sMembers and is about to choose
\* between the duplicate answer and the insertion
Choosing(s) == req[s].kind = "POST" /\ req[s].pc = "gotMembers"

\* C13 as stated: where a Subscribe handler chooses, the membership of its
\* address in the reply it holds is the membership in the store.
C13_NoStaleCopy ==
    \A s \in Slots :
       Choosing(s)
          => (Address(req[s].data) \in req[s].emails <=> Address(req[s].data) \in store)

\* C13 amended: where a Subscribe handler chooses, the reply it holds is the
\* store as its own sMembers found it: it holds every address stored when the
\* request arrived and only stored addresses, and it is the store itself when
\* no other request has overlapped this one.
C13_ReplyOfOwnQuery ==
    \A s \in Slots :
       Choosing(s)
          => /\ req[s].startStore \subseteq req[s].emails
             /\ req[s].emails \subseteq store
             /\ req[s].alone => req[s].emails = store

\* a handler is about to choose with a reply that lacks its address while the
\* store holds it
C13_Witness ==
    \E s \in Slots :
       /\ Choosing(s)
       /\ req[s].emails \subseteq store
       /\ Address(req[s].data) \in store \ req[s].emails

(* -------------------------------- C14 ---------------------------------- *)

\* C14: every response either handler returns has status 200 and a body of
\* the one field `message`: one of the three texts from POST, a number from GET.
C14_AlwaysStatus200 ==
    \A i \in DOMAIN hist :
       /\ DOMAIN hist[i].resp = {"status", "message"}
       /\ hist[i].resp.status = 200
       /\ Subscribes(hist[i])
             => /\ hist[i].resp.message.type = "string"
                /\ hist[i].resp.message.str \in {MsgMissing, MsgAlready, MsgSuccess}
       /\ Counts(hist[i]) => hist[i].resp.message.type = "number"

\* all four kinds of response have been returned
C14_Witness ==
    /\ \A resp \in {Missing, Already, Success} : \E i \in DOMAIN hist : hist[i].resp = resp
    /\ \E i \in DOMAIN hist : Counts(hist[i])

(* -------------------------------- C15 ---------------------------------- *)

\* the number of requests in flight
Running == Cardinality({s \in Slots : InFlight(req[s])})

\* the step is one in which the command request s awaits does not complete
Fails(s) ==
    /\ Pending(req[s]) # <<>>
    /\ Acts(s)
    /\ req'[s].ops # Append(req[s].ops, req[s].pc)

\* C15: when a store command of a request fails, the handler ends in that step:
\* it returns no response, has no command pending and leaves the store and
\* the connections as they are; a request whose connect or sMembers fails has
\* executed no insertion, and every Success answers an executed insertion.
C15_FailureEndsHandler ==
    /\ [][\A s \in Slots :
             Fails(s)
                => /\ hist' = hist
                   /\ Finished(req'[s])
                   /\ store' = store /\ conns' = conns
                   /\ req[s].pc \in {"connect", "sMembers"}
                         => Occurrences(req[s].ops, "sAdd") = 0]_vars
    /\ [](\A i \in DOMAIN hist :
             hist[i].resp = Success
                => /\ Occurrences(hist[i].ops, "sAdd") = 1
                   /\ Address(hist[i].data) \in hist[i].after)

\* three requests have ended without a response, one of them after its
\* connect had succeeded, and the store is as it was
C15_Witness ==
    /\ calls = 3 /\ hist = <<>> /\ Running = 0
    /\ conns = 1
    /\ store = {}

(* -------------------------------- C16 ---------------------------------- *)

Queries == {"sMembers", "sAdd", "sCard"}

\* among the commands issued, connect has completed before any query
ConnectFirst(r, issued) ==
    \A k \in DOMAIN issued :
       issued[k] \in Queries
          => /\ k > 1
             /\ issued[1] = "connect"
             /\ r.ops # <<>> /\ r.ops[1] = "connect"

\* C16: in every request of either handler, no query is issued before the
\* request's own connect has completed.
C16_ConnectBeforeQuery ==
    /\ \A s \in Slots : ConnectFirst(req[s], Issued(req[s]))
    /\ \A i \in DOMAIN hist : ConnectFirst(hist[i], hist[i].ops)

\* a Subscribe request has a query pending, and a Count and a Subscribe request
\* have returned after their queries
C16_Witness ==
    /\ \E s \in Slots : req[s].kind = "POST" /\ req[s].pc \in Queries
    /\ \E i, j \in DOMAIN hist :
          /\ hist[i].ops = <<"connect", "sCard">>
          /\ hist[j].ops = <<"connect", "sMembers", "sAdd">>

(* -------------------------------- C17 ---------------------------------- *)

\* C17: when a Subscribe request has answered Success for an address, its
\* insertion was executed before the response: the address was stored at the
\* response and is stored in every later state.
C17_SuccessAfterInsertion ==
    \A i \in DOMAIN hist :
       hist[i].resp = Success
          => /\ hist[i].ops = <<"connect", "sMembers", "sAdd">>
             /\ Address(hist[i].data) \in hist[i].after
             /\ Address(hist[i].data) \in store

\* a Success was returned and two more requests, one of them an insertion of
\* another address, have returned since
C17_Witness ==
    /\ Len(hist) = 3
    /\ hist[1].resp = Success
    /\ hist[3].resp = Success /\ hist[3].data # hist[1].data
    /\ hist[1].after # store

(* -------------------------------- C18 ---------------------------------- *)

\* the step is one in which the connect of request s completes
ConnectCompletes(s) ==
    /\ req[s].pc = "connect"
    /\ Acts(s)
    /\ req'[s].ops = Append(req[s].ops, "connect")

\* the requests, returned or running, whose connect has completed
Connected ==
    Cardinality({i \in DOMAIN hist : Occurrences(hist[i].ops, "connect") > 0})
       + Cardinality({s \in Slots : Occurrences(req[s].ops, "connect") > 0})

\* C18: a connection is opened exactly when the connect of a request
\* completes and none is ever closed; every Count request and every Subscribe
\* request past validation that returns has opened exactly one, a request
\* answered "missing fields" none.  So the open connections are as many as the
\* requests whose connect completed.
C18_OneConnectionPerRequest ==
    /\ [][conns' = conns + Cardinality({s \in Slots : ConnectCompletes(s)})]_vars
    /\ [](/\ \A i \in DOMAIN hist :
               Occurrences(hist[i].ops, "connect")
                  = (IF hist[i].resp = Missing THEN 0 ELSE 1)
           /\ \A s \in Slots : Occurrences(req[s].ops, "connect") <= 1
           /\ conns >= Connected
           /\ calls = Len(hist) + Running => conns = Connected)

\* three requests have returned, each through a connection of its own, and
\* the three connections are open
C18_Witness ==
    /\ Len(hist) = 3 /\ Running = 0
    /\ \A i \in DOMAIN hist : Occurrences(hist[i].ops, "connect") = 1
    /\ \E i \in DOMAIN hist : Counts(hist[i])
    /\ \E i \in DOMAIN hist : Subscribes(hist[i])
    /\ conns = 3

(* -------------------------------- C19 ---------------------------------- *)

IsPrefix(p, q) == Len(p) <= Len(q) /\ \A k \in DOMAIN p : p[k] = q[k]

\* the commands of one request lie on the one path of its handler
Linear(r, issued) ==
    /\ r.kind = "POST" => IsPrefix(issued, <<"connect", "sMembers", "sAdd">>)
    /\ r.kind = "GET" => IsPrefix(issued, <<"connect", "sCard">>)
    /\ r.kind = "none" => issued = <<>>

\* C19: each handler is one linear path without retry or loop: a Subscribe
\* request issues at most one connect, one sMembers and one sAdd, in that
\* order, a Count request at most one connect and one sCard, and none of them
\* issues a command twice.
C19_LinearNoRetry ==
    /\ \A s \in Slots : Linear(req[s], Issued(req[s]))
    /\ \A i \in DOMAIN hist : Linear(hist[i], hist[i].ops)

\* a Subscribe request has its last command pending while a Count and a
\* Subscribe request have returned from the end of their paths
C19_Witness ==
    /\ \E s \in Slots : Issued(req[s]) = <<"connect", "sMembers", "sAdd">>
    /\ \E i, j \in DOMAIN hist :
          /\ Counts(hist[i]) /\ hist[i].ops = <<"connect", "sCard">>
          /\ hist[j].resp = Success /\ hist[j].ops = <<"connect", "sMembers", "sAdd">>

(* -------------------------------- C20 ---------------------------------- *)

C21_OpaqueAddress ==
    /\ \A s \in Slots :
          req[s].kind = "POST" /\ Valid(req[s].data) /\ req[s].pc # "json"
             => Issued(req[s]) # <<>> /\ Issued(req[s])[1] = "connect"
    /\ \A i \in DOMAIN hist :
          Subscribes(hist[i]) /\ Valid(hist[i].data)
             => /\ IsPrefix(<<"connect", "sMembers">>, hist[i].ops)
                /\ Address(hist[i].data) \notin hist[i].before
                      => /\ hist[i].resp = Success
                         /\ hist[i].after = hist[i].before \cup {Address(hist[i].data)}
                /\ Address(hist[i].data) \in hist[i].before
                      => /\ hist[i].resp = Already
                         /\ hist[i].after = hist[i].before

\* the two strings that are no addresses have been submitted, each was
\* answered Success and the store holds both as they were sent
C21_Witness ==
    /\ Texts \subseteq store
    /\ \A t \in Texts :
          \E i \in DOMAIN hist :
             /\ SubscribesTo(hist[i], t)
             /\ hist[i].resp = Success
             /\ hist[i].after = hist[i].before \cup {t}

(* -------------------------------- C22 ---------------------------------- *)

\* the reference handler: validation, then one atomic primitive that inserts
\* the address if it is absent and reports whether it inserted
InsertIfAbsent(S, e) == [inserted |-> e \notin S, store |-> S \cup {e}]

AtomicSubscribe(S, data) ==
    IF ~Valid(data)
    THEN [resp |-> Missing, store |-> S]
    ELSE LET r == InsertIfAbsent(S, Address(data))
         IN [resp |-> IF r.inserted THEN Success ELSE Already, store |-> r.store]

\* the store of the reference handler after the first k answered requests
RECURSIVE AtomicStore(_)
AtomicStore(k) ==
    IF k = 0 THEN {}
    ELSE IF Subscribes(hist[k])
         THEN AtomicSubscribe(AtomicStore(k - 1), hist[k].data).store
         ELSE AtomicStore(k - 1)

\* C22: when requests do not overlap, the check-then-insert handler behaves
\* as the reference handler built on the atomic insert-if-absent primitive:
\* fed the same requests in the same order, each Subscribe request finds the
\* store the reference has, gets the response the reference gives and leaves
\* the store the reference leaves.
C22_RefinesAtomicInsert ==
    /\ \A i \in DOMAIN hist :
          /\ hist[i].before = AtomicStore(i - 1)
          /\ hist[i].after = AtomicStore(i)
          /\ Subscribes(hist[i])
                => hist[i].resp
                     = AtomicSubscribe(AtomicStore(i - 1), hist[i].data).resp
    /\ NoneInFlight => store = AtomicStore(Len(hist))

\* the run has answered Success, "Already subscribed" and "missing fields",
\* and both stores hold the two addresses
C22_Witness ==
    /\ NoneInFlight
    /\ AtomicStore(Len(hist)) = Emails
    /\ \A resp \in {Success, Already, Missing} :
          \E i \in DOMAIN hist : Subscribes(hist[i]) /\ hist[i].resp = resp

(* -------------------------------- C23 ---------------------------------- *)

\* C23: a Count that runs while Subscribe requests insert reports the
\* cardinality the store had at one moment of its run: the number it holds
\* after its query, and the number it responds with, is at least the
\* cardinality of the store when the Count arrived and at most the
\* cardinality of the store now (at the response, for one that has returned).
C23_CountWithinItsRun ==
    /\ \A s \in Slots :
          req[s].kind = "GET" /\ req[s].pc = "gotCount"
             => /\ Cardinality(req[s].startStore) <= req[s].count
                /\ req[s].count <= Cardinality(store)
    /\ \A i \in DOMAIN hist :
          Counts(hist[i])
             => /\ hist[i].resp.message.type = "number"
                /\ Cardinality(hist[i].before) <= hist[i].resp.message.num
                /\ hist[i].resp.message.num <= Cardinality(hist[i].after)

\* a Count arrived at the empty store, queried after one insertion and
\* responded 1 after a second one
C23_Witness ==
    \E i \in DOMAIN hist :
       /\ Counts(hist[i])
       /\ hist[i].before = {}
       /\ hist[i].resp = Counted(1)
       /\ Cardinality(hist[i].after) = 2

(* -------------------------------- C24 ---------------------------------- *)

\* C24: counts never decrease.  The store only grows, so a Count that has
\* responded before another Count arrived left a store that is part of the
\* store the other found on arrival; for every two answered Counts in that
\* relation the response of the second is at least the response of the first,
\* however the Subscribe requests interleave with them.  In particular a Count
\* that ran without overlap responds with at least the number every earlier
\* Count responded with.
C24_CountsNeverDecrease ==
    \A i, j \in DOMAIN hist :
       Counts(hist[i]) /\ Counts(hist[j])
          => /\ hist[i].after \subseteq hist[j].before
                   => hist[i].resp.message.num <= hist[j].resp.message.num
             /\ i < j /\ hist[j].alone
                   => hist[i].resp.message.num <= hist[j].resp.message.num

\* a Count that overlapped a Subscribe responded 0; a Count that arrived
\* after both had ended responded 1
C24_Witness ==
    \E i, j \in DOMAIN hist :
       /\ i < j
       /\ Counts(hist[i]) /\ ~hist[i].alone /\ hist[i].resp = Counted(0)
       /\ Counts(hist[j]) /\ hist[j].alone /\ hist[j].resp = Counted(1)
       /\ hist[i].after \subseteq hist[j].before

(* -------------------------------- C25 ---------------------------------- *)

\* the Subscribe requests, answered or running, that have passed validation
PastValidation ==
    {hist[i] : i \in {k \in DOMAIN hist :
                        Subscribes(hist[k]) /\ hist[k].resp # Missing}}
       \cup {req[s] : s \in {u \in Slots : req[u].kind = "POST" /\ req[u].pc # "json"}}

\* C25: every member of the stored set (the store starts empty) is the email
\* of a Subscribe request that passed validation, a non-empty string that a
\* client submitted; the empty string is never stored, and a request that
\* passed validation carries a non-empty string.
C25_OnlySubmittedAddresses ==
    /\ \A r \in PastValidation : Valid(r.data)
    /\ store \subseteq {Address(r.data) : r \in {q \in PastValidation : Valid(q.data)}}
    /\ "" \notin store

\* both addresses are stored and a request with the empty string as email,
\* answered "missing fields", has left no trace in the store
C25_Witness ==
    /\ store = Emails
    /\ \E i \in DOMAIN hist :
          SubscribesTo(hist[i], "") /\ hist[i].resp = Missing

(* -------------------------------- C26 ---------------------------------- *)

\* the valid addresses of the Subscribe requests answered so far
AnsweredAddresses ==
    {Address(hist[i].data) : i \in {k \in DOMAIN hist :
                                      Subscribes(hist[k]) /\ Valid(hist[k].data)}}

\* C26: the final store does not depend on the order or the interleaving of
\* the requests.  The address of every answered Subscribe request with a valid
\* email is stored; and once every request received has been answered, the
\* store (empty at the start) is exactly the set of the non-empty emails of
\* the Subscribe requests, whatever the order in which their steps ran.
C26_FinalStoreIsUnion ==
    /\ AnsweredAddresses \subseteq store
    /\ NoneInFlight /\ Len(hist) = calls => store = AnsweredAddresses

\* three Subscribe requests, two of them racing for the same address and
\* both answered Success, have all been answered
C26_Witness ==
    /\ NoneInFlight /\ Len(hist) = calls /\ calls = 3
    /\ store = Emails
    /\ \A i \in DOMAIN hist : Subscribes(hist[i]) /\ hist[i].resp = Success
    /\ \E i \in DOMAIN hist : ~hist[i].alone

(* -------------------------------- C27 ---------------------------------- *)

\* C27: for an address e (none is stored at the start), once every request
\* received has been answered, if some Subscribe(e) ran then at least one
\* Subscribe(e) was answered Success; and a Subscribe(e) is answered "Already
\* subscribed" only if the reply to its membership query held e, which another
\* request had inserted by then.
C27_SomeoneSucceeds ==
    /\ NoneInFlight /\ Len(hist) = calls
          => \A e \in AnsweredAddresses :
                \E i \in DOMAIN hist : SubscribesTo(hist[i], e) /\ hist[i].resp = Success
    /\ \A i \in DOMAIN hist :
          hist[i].resp = Already
             => /\ Address(hist[i].data) \in hist[i].emails
                /\ Occurrences(hist[i].ops, "sAdd") = 0
                /\ \E r \in Inserters : Address(r.data) = Address(hist[i].data)

\* of three Subscribe requests for one address, two raced and were both
\* answered Success, and the third, which queried after an insertion, was
\* answered "Already subscribed"
C27_Witness ==
    /\ NoneInFlight /\ Len(hist) = calls
    /\ \E e \in Emails :
          /\ \A i \in DOMAIN hist : SubscribesTo(hist[i], e)
          /\ Cardinality({i \in DOMAIN hist : hist[i].resp = Success}) = 2
          /\ Cardinality({i \in DOMAIN hist : hist[i].resp = Already}) = 1

(* -------------------------------- C28 ---------------------------------- *)

\* the reply of the membership query of request h holds its address
FoundItself(h) == Address(h.data) \in h.emails

\* C28: what a Subscribe request for e does depends on e and on whether e was
\* a member at its membership query, and on nothing else in the store.  Any
\* two answered Subscribe requests for the same valid e whose queries agree on
\* the membership of e, whatever other members the two replies hold, have
\* the same response and have completed the same commands: both inserted e
\* or neither changed the store.
C28_OnlyOwnMembershipMatters ==
    \A i, j \in DOMAIN hist :
       /\ Subscribes(hist[i]) /\ Valid(hist[i].data)
       /\ Subscribes(hist[j]) /\ hist[j].data = hist[i].data
       /\ FoundItself(hist[i]) <=> FoundItself(hist[j])
       => /\ hist[i].resp = hist[j].resp
          /\ hist[i].ops = hist[j].ops
          /\ Occurrences(hist[i].ops, "sAdd") = IF FoundItself(hist[i]) THEN 0 ELSE 1

\* two requests for one address queried stores that differ in another
\* member and agree on the absence of the address: both answered Success
C28_Witness ==
    \E i, j \in DOMAIN hist :
       /\ Subscribes(hist[i]) /\ Valid(hist[i].data)
       /\ Subscribes(hist[j]) /\ hist[j].data = hist[i].data
       /\ ~FoundItself(hist[i]) /\ ~FoundItself(hist[j])
       /\ hist[i].emails # hist[j].emails
       /\ hist[i].resp = Success /\ hist[j].resp = Success

(* -------------------------------- C29 ---------------------------------- *)

\* C29: the Subscribe handler registers its error listener only when connect
\* has completed.  A client gets its listener in the step in which its connect
\* completes and in no other; while a request awaits connect its client has
\* no listener, so a failure raised while connecting finds none to be
\* delivered to; and the listener is there whenever the membership query or
\* the insertion has been issued.  The Count handler registers none.
C29_ListenerAfterConnect ==
    /\ [](\A s \in Slots :
             /\ req[s].pc \in {"json", "connect"} => ~req[s].listener
             /\ (\E k \in DOMAIN Issued(req[s]) :
                    Issued(req[s])[k] \in {"sMembers", "sAdd"}) => req[s].listener
             /\ req[s].kind # "POST" => ~req[s].listener)
    /\ [][\A s \in Slots :
             /\ ~req[s].listener /\ req'[s].listener
                   => req[s].kind = "POST" /\ ConnectCompletes(s)
             /\ req[s].kind = "POST" /\ ConnectCompletes(s) => req'[s].listener
             /\ Fails(s) /\ req[s].pc = "connect" => ~req[s].listener]_vars

\* after a request that ended in a failure, a Subscribe request has connected
\* and registered its listener, has queried and now awaits its insertion
C29_Witness ==
    /\ Len(hist) + 1 < calls
    /\ \E s \in Slots :
          /\ req[s].kind = "POST" /\ req[s].pc = "sAdd" /\ req[s].listener
          /\ req[s].ops = <<"connect", "sMembers">>

====
